---- MODULE Spec2Model ----
(***************************************************************************)
(* Model of src/app/api/generate-newsletter/route.ts: the POST handler of  *)
(* the newsletter generator, its research helper                           *)
(* researchCompanyWithPerplexity, the NewsletterResearchBot methods and    *)
(* the markdown rendering step.                                            *)
(*                                                                         *)
(* A JavaScript string is a sequence of one-character strings.  A JSON     *)
(* value is represented by its canonical JSON text; the empty sequence     *)
(* stands for undefined (an absent key).  One behaviour is one request:    *)
(* the handler is stateless, so requests do not interact.                  *)
(***************************************************************************)
EXTENDS Integers, Sequences, FiniteSets, TLC

VARIABLES
    pc,               \* position of the handler: the await it is suspended at
    request,          \* the parsed body: company_name, company_data (route.ts:211)
    apiKey,           \* process.env.PERPLEXITY_API_KEY is set (route.ts:159)
    content,          \* response.data.choices[0].message.content (route.ts:188)
    research_data,    \* route.ts:214
    rawApiResponse,   \* route.ts:215
    acq_error,        \* the error caught at route.ts:219
    bot_company_data, \* the company_data argument of research_company (route.ts:57)
    story,            \* the story built by research_company (route.ts:78)
    formatted_story,  \* route.ts:233
    isMarkdown,       \* route.ts:268
    htmlContent,      \* route.ts:271
    top_error,        \* the error caught at route.ts:282
    response,         \* the NextResponse the handler returns
    calls,            \* log of the external calls: start and end of each
    fmt_value,        \* format_metrics: argument value
    fmt_type,         \* format_metrics: argument metric_type
    fmt_result        \* format_metrics: returned string ("unset" token before the call)

reqVars == <<pc, request, apiKey, content, research_data, rawApiResponse, acq_error,
             bot_company_data, story, formatted_story, isMarkdown, htmlContent, top_error, response, calls>>
fmtVars == <<fmt_value, fmt_type, fmt_result>>
vars == <<reqVars, fmtVars>>

----------------------------------------------------------------------------
(* Bounds of the model *)

MaxPad == 1          \* longest whitespace run around a code fence
MaxHeadlineLen == 2  \* longest headline text the generation API returns
MaxStoryLen == 3     \* longest story text the generation API returns
MaxMillions == 15    \* format_metrics values range over -1000000 .. (MaxMillions+1)*10^6 - 1

----------------------------------------------------------------------------
(* Strings *)

Backtick == "bt"     \* the character U+0060
WS == {" ", "\n"}    \* white space of String.prototype.trim and of the regex class \s

RECURSIVE trimStart(_)
trimStart(s) == IF s # <<>> /\ Head(s) \in WS THEN trimStart(Tail(s)) ELSE s

RECURSIVE trimEnd(_)
trimEnd(s) == IF s # <<>> /\ s[Len(s)] \in WS THEN trimEnd(SubSeq(s, 1, Len(s) - 1)) ELSE s

trim(s) == trimEnd(trimStart(s))

startsWith(s, p) == Len(s) >= Len(p) /\ SubSeq(s, 1, Len(p)) = p

endsWith(s, p) == Len(s) >= Len(p) /\ SubSeq(s, Len(s) - Len(p) + 1, Len(s)) = p

includes(s, p) == \E i \in 0..(Len(s) - Len(p)) : SubSeq(s, i + 1, i + Len(p)) = p

\* all strings over alphabet of length at most n
RECURSIVE StringsUpTo(_, _)
StringsUpTo(alphabet, n) ==
    IF n = 0 THEN {<<>>}
    ELSE LET shorter == StringsUpTo(alphabet, n - 1)
         IN shorter \cup {Append(s, c) : s \in shorter, c \in alphabet}

----------------------------------------------------------------------------
(* JSON values *)

Undefined == <<>>
JNull == <<"n", "u", "l", "l">>
JEmptyObject == <<"{", "}">>
JProfile == <<"{", "\"", "c", "o", "n", "t", "e", "x", "t", "\"", ":", "{", "}", "}">>
JZero == <<"0">>
JEmptyString == <<"\"", "\"">>
JFalse == <<"f", "a", "l", "s", "e">>
Malformed == <<"{">>

JsonDocuments == {JNull, JEmptyObject, JProfile, JZero, JEmptyString, JFalse}

\* JavaScript truthiness of a JSON value
Truthy(v) == v \notin {Undefined, JNull, JZero, JEmptyString, JFalse}

\* JSON.parse: white space around the document is allowed; anything that is
\* not a JSON document raises a SyntaxError
JSON_parse(text) ==
    LET t == trim(text)
    IN IF t \in JsonDocuments THEN [ok |-> TRUE, value |-> t]
       ELSE [ok |-> FALSE, value |-> Undefined]

----------------------------------------------------------------------------
(* Errors and responses *)

NullValue == "<null>"   \* JavaScript null where a string may stand
NullString == <<NullValue>>   \* JavaScript null where a sequence of characters may stand

Error(msg) == [isError |-> TRUE, message |-> msg]
NoError == [isError |-> FALSE, message |-> NullValue]

NoResponse ==
    [status |-> 0, keys |-> {}, story |-> <<>>, htmlContent |-> <<>>,
     isMarkdown |-> FALSE, rawApiResponse |-> NullValue, error |-> NullValue]

\* NextResponse.json({story, htmlContent, isMarkdown, rawApiResponse})
okResponse(fs, html, md, raw) ==
    [status |-> 200, keys |-> {"story", "htmlContent", "isMarkdown", "rawApiResponse"},
     story |-> fs, htmlContent |-> html, isMarkdown |-> md, rawApiResponse |-> raw,
     error |-> NullValue]

catchAll_leak(err) ==
    [NoResponse EXCEPT !.status = 500, !.keys = {"error"}, !.error = err.message]

\* the catch-all of POST
catchAll(err) ==
    [NoResponse EXCEPT !.status = 500, !.keys = {"error"},
                       !.error = "Failed to generate newsletter"]

Call(fn) == [fn |-> fn, ev |-> "call"]
Return(fn) == [fn |-> fn, ev |-> "return"]
Throw(fn) == [fn |-> fn, ev |-> "throw"]

----------------------------------------------------------------------------
(* researchCompanyWithPerplexity *)

Fence == <<Backtick, Backtick, Backtick>>

\* assistantMessage.replace(/(^```(?:json)?\s*|```$)/g, ""): without the m flag
\* ^ matches at index 0 only and $ at the end of the input only
stripFences(s) ==
    LET afterFence == SubSeq(s, Len(Fence) + 1, Len(s))
        afterTag == IF startsWith(afterFence, <<"j", "s", "o", "n">>)
                    THEN SubSeq(afterFence, 5, Len(afterFence))
                    ELSE afterFence
        opened == IF startsWith(s, Fence) THEN trimStart(afterTag) ELSE s
    IN IF endsWith(opened, Fence)
       THEN SubSeq(opened, 1, Len(opened) - Len(Fence))
       ELSE opened

parseAssistantMessage_swallow(text) ==
    LET parsed == JSON_parse(trim(stripFences(text)))
    IN IF parsed.ok THEN [ok |-> TRUE, value |-> parsed.value, error |-> NoError]
       ELSE [ok |-> TRUE, value |-> JNull, error |-> NoError]

\* the part of researchCompanyWithPerplexity after the HTTP call returned
parseAssistantMessage(text) ==
    LET assistantMessage == trim(stripFences(text))
        parsed == JSON_parse(assistantMessage)
    IN IF parsed.ok THEN [ok |-> TRUE, value |-> parsed.value, error |-> NoError]
       ELSE [ok |-> FALSE, value |-> Undefined,
             error |-> Error("Failed to parse JSON response from Perplexity")]

----------------------------------------------------------------------------
(* Inputs of a request *)

CompanyData == {Undefined, JNull, JEmptyObject, JProfile}

Requests == [company_name : {<<"a">>}, company_data : CompanyData, malformed : {FALSE}]
            \cup {[company_name |-> Undefined, company_data |-> Undefined, malformed |-> TRUE]}

Pads == StringsUpTo({"\n"}, MaxPad)
Openers == {<<>>, Fence, Fence \o <<"j", "s", "o", "n">>}
Closers == {<<>>, Fence}
Bodies == {JEmptyObject, JProfile, JNull, Malformed}

\* texts the research API can answer with
ResearchTexts ==
    {lead \o open \o p1 \o body \o p2 \o close \o trail :
        lead \in Pads, open \in Openers, p1 \in Pads, body \in Bodies,
        p2 \in Pads, close \in Closers, trail \in Pads}

\* errors axios.post rejects with
TransportErrors ==
    {Error("Network Error"), Error("Request failed with status code 401")}

HeadlineTexts == StringsUpTo({"a", " "}, MaxHeadlineLen)

\* a document that holds only a link reference definition
LinkDefinitionDoc == <<"[", "*", "]", ":", " ", "b">>

StoryTexts == StringsUpTo({"#", "*", "a", " "}, MaxStoryLen) \cup {LinkDefinitionDoc}

GenerationErrors == {Error("API key missing"), Error("Rate limit exceeded")}
RenderErrors == {Error("Cannot process markdown")}

----------------------------------------------------------------------------
(* Markdown rendering *)

\* remark().use(html).process(markdown).toString().  Only whether the output
\* is empty is modelled: a document that holds nothing but link reference
\* definitions has no rendered content and serialises to the empty string;
\* any other document of StoryTexts renders to markup around its text.
remark_html(markdown) ==
    IF trim(markdown) \in {<<>>, LinkDefinitionDoc} THEN <<>>
    ELSE <<"<", "p", ">">> \o markdown \o <<"<", "/", "p", ">", "\n">>

----------------------------------------------------------------------------
(* POST *)

ResearchFn == "researchCompanyWithPerplexity"
HookFn == "generate_hook"
StoryFn == "format_story"
RenderFn == "markdownToHtml"

\* this.story_template with the fields of company_data not yet overlaid
story_template == [headline |-> NullString, overlay |-> Undefined]

needsResearch_always(company_data) == TRUE

\* if (!company_data)
needsResearch(company_data) == ~Truthy(company_data)

errorText_generic(err) == "An unknown error occurred"

\* error instanceof Error ? error.message : "An unknown error occurred"
errorText(err) == IF err.isError THEN err.message ELSE "An unknown error occurred"

acquisitionEmpty_never(rd, raw) == FALSE

\* !research_data && !rawApiResponse
acquisitionEmpty(rd, raw) == ~Truthy(rd) /\ raw \in {NullValue, ""}

headlineMissing_never(h) == FALSE

\* !story.headline
headlineMissing(h) == h \in {NullString, <<>>}

detectMarkdown_hash(fs) == includes(fs, <<"#">>) \/ includes(fs, <<"*">>)

\* formatted_story.includes("##") || formatted_story.includes("*")
detectMarkdown(fs) == includes(fs, <<"#", "#">>) \/ includes(fs, <<"*">>)

\* the catch-all of POST is entered with err
Fail(err, log) ==
    /\ pc' = "done"
    /\ calls' = log
    /\ top_error' = err
    /\ response' = catchAll(err)
    /\ UNCHANGED <<formatted_story, isMarkdown, htmlContent>>

\* markdown detection, rendering and the 200 response for story text fs
Rendering(fs, log) ==
    /\ formatted_story' = fs
    /\ isMarkdown' = detectMarkdown(fs)
    /\ htmlContent' = <<>>
    /\ top_error' = top_error
    /\ IF detectMarkdown(fs)
       THEN /\ pc' = "awaitRender"
            /\ calls' = Append(log, Call(RenderFn))
            /\ response' = response
       ELSE /\ pc' = "done"
            /\ calls' = log
            /\ response' = okResponse(fs, <<>>, isMarkdown', rawApiResponse')

\* POST from the check of the acquisition's outcome on; reads research_data'
\* and rawApiResponse'
Generation(log) ==
    IF acquisitionEmpty(research_data', rawApiResponse')
    THEN /\ Fail(Error("Failed to fetch company data"), log)
         /\ UNCHANGED <<bot_company_data, story>>
    ELSE IF Truthy(research_data')
    THEN /\ bot_company_data' = research_data'
         /\ story' = story_template
         /\ pc' = "awaitHook"
         /\ calls' = Append(log, Call(HookFn))
         /\ UNCHANGED <<formatted_story, isMarkdown, htmlContent, top_error, response>>
    ELSE /\ Rendering(<<>>, log)
         /\ UNCHANGED <<bot_company_data, story>>

catchResearch_retry(err, log) ==
    /\ acq_error' = err
    /\ rawApiResponse' = rawApiResponse
    /\ pc' = "awaitResearch"
    /\ calls' = Append(log, Call(ResearchFn))
    /\ UNCHANGED <<bot_company_data, story, formatted_story, isMarkdown, htmlContent,
                   top_error, response>>

\* the catch around researchCompanyWithPerplexity, and POST from there on
catchResearch(err, log) ==
    /\ acq_error' = err
    /\ rawApiResponse' = errorText(err)
    /\ Generation(log)

\* POST up to its first external call
ReceiveRequest ==
    /\ pc = "start"
    /\ UNCHANGED <<request, apiKey, content, fmtVars>>
    /\ IF request.malformed
       THEN /\ Fail(Error("Unexpected end of JSON input"), calls)
            /\ UNCHANGED <<research_data, rawApiResponse, acq_error, bot_company_data, story>>
       ELSE /\ research_data' = request.company_data
            /\ IF needsResearch(request.company_data)
               THEN IF ~apiKey
                    THEN catchResearch(Error("Perplexity API key is not set"),
                                       calls \o <<Call(ResearchFn), Throw(ResearchFn)>>)
                    ELSE /\ pc' = "awaitResearch"
                         /\ calls' = Append(calls, Call(ResearchFn))
                         /\ UNCHANGED <<rawApiResponse, acq_error, bot_company_data, story,
                                        formatted_story, isMarkdown, htmlContent,
                                        top_error, response>>
               ELSE /\ UNCHANGED <<rawApiResponse, acq_error>>
                    /\ Generation(calls)

\* axios.post resolves: the answer is unwrapped and parsed
ResearchReturns ==
    /\ pc = "awaitResearch"
    /\ UNCHANGED <<request, apiKey, fmtVars>>
    /\ \E text \in ResearchTexts :
        /\ content' = text
        /\ LET r == parseAssistantMessage(text)
           IN IF r.ok
              THEN /\ research_data' = r.value
                   /\ UNCHANGED <<rawApiResponse, acq_error>>
                   /\ Generation(Append(calls, Return(ResearchFn)))
              ELSE /\ research_data' = research_data
                   /\ catchResearch(r.error, Append(calls, Throw(ResearchFn)))

\* axios.post rejects: network failure or non-2xx status
ResearchThrows ==
    /\ pc = "awaitResearch"
    /\ UNCHANGED <<request, apiKey, content, research_data, fmtVars>>
    /\ \E err \in TransportErrors : catchResearch(err, Append(calls, Throw(ResearchFn)))

\* axios.post resolves with a body that has no choices: reading
\* response.data.choices[0] raises a TypeError
ResearchReturnsWithoutChoices ==
    /\ pc = "awaitResearch"
    /\ UNCHANGED <<request, apiKey, content, research_data, fmtVars>>
    /\ catchResearch(Error("Cannot read properties of undefined (reading '0')"),
                     Append(calls, Throw(ResearchFn)))

\* generateText of generate_hook resolves; research_company completes the story
HookReturns ==
    /\ pc = "awaitHook"
    /\ UNCHANGED <<request, apiKey, content, research_data, rawApiResponse, acq_error,
                   bot_company_data, fmtVars>>
    /\ \E text \in HeadlineTexts :
        /\ story' = [headline |-> trim(text), overlay |-> bot_company_data]
        /\ IF headlineMissing(story'.headline)
           THEN Fail(Error("Generated headline is null"), Append(calls, Return(HookFn)))
           ELSE /\ pc' = "awaitStory"
                /\ calls' = calls \o <<Return(HookFn), Call(StoryFn)>>
                /\ UNCHANGED <<formatted_story, isMarkdown, htmlContent, top_error, response>>

\* generateText of generate_hook rejects
HookThrows ==
    /\ pc = "awaitHook"
    /\ UNCHANGED <<request, apiKey, content, research_data, rawApiResponse, acq_error,
                   bot_company_data, story, fmtVars>>
    /\ \E err \in GenerationErrors : Fail(err, Append(calls, Throw(HookFn)))

\* generateText of format_story resolves
StoryReturns ==
    /\ pc = "awaitStory"
    /\ UNCHANGED <<request, apiKey, content, research_data, rawApiResponse, acq_error,
                   bot_company_data, story, fmtVars>>
    /\ \E text \in StoryTexts : Rendering(trim(text), Append(calls, Return(StoryFn)))

\* generateText of format_story rejects
StoryThrows ==
    /\ pc = "awaitStory"
    /\ UNCHANGED <<request, apiKey, content, research_data, rawApiResponse, acq_error,
                   bot_company_data, story, fmtVars>>
    /\ \E err \in GenerationErrors : Fail(err, Append(calls, Throw(StoryFn)))

\* markdownToHtml resolves
RenderReturns ==
    /\ pc = "awaitRender"
    /\ UNCHANGED <<request, apiKey, content, research_data, rawApiResponse, acq_error,
                   bot_company_data, story, formatted_story, isMarkdown, top_error, fmtVars>>
    /\ htmlContent' = remark_html(formatted_story)
    /\ pc' = "done"
    /\ calls' = Append(calls, Return(RenderFn))
    /\ response' = okResponse(formatted_story, htmlContent', isMarkdown, rawApiResponse)

\* markdownToHtml rejects
RenderThrows ==
    /\ pc = "awaitRender"
    /\ UNCHANGED <<request, apiKey, content, research_data, rawApiResponse, acq_error,
                   bot_company_data, story, fmtVars>>
    /\ \E err \in RenderErrors : Fail(err, Append(calls, Throw(RenderFn)))

Init ==
    /\ pc = "start"
    /\ request \in Requests
    /\ apiKey \in BOOLEAN
    /\ content = NullString
    /\ research_data = Undefined
    /\ rawApiResponse = NullValue
    /\ acq_error = NoError
    /\ bot_company_data = Undefined
    /\ story = story_template
    /\ formatted_story = <<>>
    /\ isMarkdown = FALSE
    /\ htmlContent = <<>>
    /\ top_error = NoError
    /\ response = NoResponse
    /\ calls = <<>>
    /\ fmt_value = [m |-> 0, u |-> 0]
    /\ fmt_type = "inr"
    /\ fmt_result = <<"unset">>

Next ==
    \/ ReceiveRequest
    \/ ResearchReturns
    \/ ResearchThrows
    \/ ResearchReturnsWithoutChoices
    \/ HookReturns
    \/ HookThrows
    \/ StoryReturns
    \/ StoryThrows
    \/ RenderReturns
    \/ RenderThrows

Spec == Init /\ [][Next]_vars

----------------------------------------------------------------------------
(* NewsletterResearchBot.format_metrics *)

Million == 1000000
Crore == 10000000

\* An integer value is held as the pair [m, u] with value = m * Million + u
\* and 0 <= u < Million, so that amounts beyond 2^31 stay within reach.
negate(v) == IF v.u = 0 THEN [m |-> -v.m, u |-> 0] ELSE [m |-> -v.m - 1, u |-> Million - v.u]

\* value >= threshold, for a threshold that is a multiple of Million
greaterOrEqual(v, threshold) == v.m >= threshold \div Million

DigitChars == <<"0", "1", "2", "3", "4", "5", "6", "7", "8", "9">>

\* decimal digits of a natural number
RECURSIVE digits(_)
digits(n) == IF n < 10 THEN <<DigitChars[n + 1]>>
             ELSE Append(digits(n \div 10), DigitChars[(n % 10) + 1])

\* Number.prototype.toString of an integer
numberToString(v) ==
    LET a == IF v.m < 0 THEN negate(v) ELSE v
        magnitude == IF a.m = 0 THEN digits(a.u)
                     ELSE digits(a.m) \o Tail(digits(Million + a.u))
    IN IF v.m < 0 THEN <<"-">> \o magnitude ELSE magnitude

RECURSIVE groupBy(_, _)
groupBy(ds, size) ==
    IF Len(ds) <= size THEN ds
    ELSE groupBy(SubSeq(ds, 1, Len(ds) - size), size) \o <<",">>
         \o SubSeq(ds, Len(ds) - size + 1, Len(ds))

\* Number.prototype.toLocaleString of an integer: en-US groups by three, en-IN
\* groups the last three digits and then by two
toLocaleString(v, locale) ==
    LET s == numberToString(v)
        ds == IF Head(s) = "-" THEN Tail(s) ELSE s
        grouped == IF Len(ds) <= 3 THEN ds
                   ELSE groupBy(SubSeq(ds, 1, Len(ds) - 3), IF locale = "en-IN" THEN 2 ELSE 3)
                        \o <<",">> \o SubSeq(ds, Len(ds) - 2, Len(ds))
    IN IF Head(s) = "-" THEN <<"-">> \o grouped ELSE grouped

toFixed0_floor(v, divisor) == digits(v.m \div (divisor \div Million))

\* (value / divisor).toFixed(0) for value >= 0 and a divisor that is a multiple
\* of Million: the nearest integer, the larger one on a tie
toFixed0(v, divisor) ==
    LET k == divisor \div Million
        n == v.m \div k
        r == (v.m % k) * Million + v.u
    IN digits(IF 2 * r >= divisor THEN n + 1 ELSE n)

format_metrics(value, metric_type) ==
    IF metric_type = "inr"
    THEN IF greaterOrEqual(value, Crore)
         THEN <<"₹">> \o toFixed0(value, Crore) \o <<" ", "c", "r", "o", "r", "e", "s">>
         ELSE <<"₹">> \o toLocaleString(value, "en-IN")
    ELSE IF metric_type = "usd"
    THEN IF greaterOrEqual(value, Million)
         THEN <<"$">> \o toFixed0(value, Million) \o <<"M">>
         ELSE <<"$">> \o toLocaleString(value, "en-US")
    ELSE numberToString(value)

MetricValues ==
    [m : (-1..MaxMillions) \cup {500, 5000},
     u : {0, 1, 12, 999, 1000, 12345, 99999, 100000, 499999, 500000, 999999}]

MetricTypes == {"inr", "usd", "eur"}

\* a call bot.format_metrics(value, metric_type)
FormatMetrics ==
    /\ pc = "start"
    /\ \E value \in MetricValues, metric_type \in MetricTypes :
        /\ fmt_value' = value
        /\ fmt_type' = metric_type
        /\ fmt_result' = format_metrics(value, metric_type)
    /\ UNCHANGED reqVars

InitFmt ==
    /\ Init
    /\ request = [company_name |-> <<"a">>, company_data |-> JProfile, malformed |-> FALSE]
    /\ apiKey = TRUE

SpecFmt == InitFmt /\ [][FormatMetrics]_vars

----------------------------------------------------------------------------
(* Properties *)

Called(fn) == \E i \in 1..Len(calls) : calls[i] = Call(fn)

Threw(fn) == \E i \in 1..Len(calls) : calls[i] = Throw(fn)

\* a JSON object: what a caller supplies as company_data
IsProfile(v) == v \in JsonDocuments /\ Head(v) = "{"

\* the text holds the heading marker ## or the emphasis marker *
ContainsMarker(text) ==
    \E i \in 1..Len(text) :
        \/ text[i] = "*"
        \/ i < Len(text) /\ text[i] = "#" /\ text[i + 1] = "#"

NoGenerationOrRender == ~Called(HookFn) /\ ~Called(StoryFn) /\ ~Called(RenderFn)

\* C1: when the payload supplies company_data, researchCompanyWithPerplexity is
\* never called in the request and the profile handed to narrative generation
\* (research_company) is exactly the supplied company_data.
C1_SuppliedProfileUsedDirectly ==
    (~request.malformed /\ IsProfile(request.company_data)) =>
        /\ ~Called(ResearchFn)
        /\ pc # "start" => (Called(HookFn) /\ bot_company_data = request.company_data)

C1_Witness ==
    /\ IsProfile(request.company_data)
    /\ response.status = 200
    /\ bot_company_data = JProfile

\* C2: without company_data, when the research API answers with text that is
\* not valid JSON after the code fences are stripped, the response is 200 with
\* story "", htmlContent "", isMarkdown false and a non-empty rawApiResponse.
C2_MalformedResearchGives200 ==
    (content # NullString /\ ~JSON_parse(trim(stripFences(content))).ok) =>
        /\ pc = "done"
        /\ response.status = 200
        /\ response.story = <<>>
        /\ response.htmlContent = <<>>
        /\ response.isMarkdown = FALSE
        /\ response.rawApiResponse \notin {NullValue, ""}

C2_Witness ==
    /\ ~Truthy(request.company_data)
    /\ content = Malformed
    /\ response.status = 200
    /\ response.rawApiResponse = "Failed to parse JSON response from Perplexity"

\* C3: when generate_hook returns a headline that is empty after trimming, the
\* response is 500 and format_story is never called; format_story is only ever
\* called with a non-empty headline.
C3_EmptyHeadlineStops ==
    /\ story.headline = <<>> => (response.status = 500 /\ ~Called(StoryFn))
    /\ Called(StoryFn) => (story.headline # NullString /\ trim(story.headline) # <<>>)

C3_Witness ==
    /\ story.headline = <<>>
    /\ calls[Len(calls)] = Return(HookFn)
    /\ response.status = 500

\* C4 as stated: in every 200 response, isMarkdown is true and htmlContent is
\* non-empty exactly when the story holds ## or *; otherwise isMarkdown is
\* false, htmlContent is "" and the renderer is not called.
C4_MarkdownHasHtml ==
    response.status = 200 =>
        /\ (response.isMarkdown /\ response.htmlContent # <<>>) <=> ContainsMarker(response.story)
        /\ ~ContainsMarker(response.story) =>
               (~response.isMarkdown /\ response.htmlContent = <<>> /\ ~Called(RenderFn))

\* C4 amended: in every 200 response, isMarkdown is true exactly when the story
\* holds ## or *; then the renderer was called and htmlContent is its output
\* for the story, which may be empty; otherwise isMarkdown is false,
\* htmlContent is "" and the renderer is not called.
C4_MarkdownDetected ==
    response.status = 200 =>
        /\ response.isMarkdown <=> ContainsMarker(response.story)
        /\ ContainsMarker(response.story) =>
               (Called(RenderFn) /\ response.htmlContent = remark_html(response.story))
        /\ ~ContainsMarker(response.story) =>
               (~response.isMarkdown /\ response.htmlContent = <<>> /\ ~Called(RenderFn))

C4_Witness ==
    /\ response.status = 200
    /\ response.story = <<"#", "#", "a">>
    /\ response.isMarkdown
    /\ response.htmlContent # <<>>

\* narrative generation failed: the headline came back empty, or the headline
\* call or the full-story call raised
GenerationFailed == story.headline = <<>> \/ Threw(HookFn) \/ Threw(StoryFn)

\* C5: whenever narrative generation fails, the response is 500 and its body is
\* the fixed {error: "Failed to generate newsletter"}: the same for every stage
\* and error, without the underlying error's text, without story or htmlContent.
C5_GenericFailure ==
    GenerationFailed =>
        /\ response.status = 500
        /\ response.keys = {"error"}
        /\ response.error = "Failed to generate newsletter"
        /\ response.error # top_error.message

C5_Witness ==
    /\ Threw(StoryFn)
    /\ top_error = Error("Rate limit exceeded")
    /\ response.status = 500

\* C6: without company_data, when acquisition fails (credential missing, the
\* HTTP call raising, or a parse failure), the failure's message is recorded in
\* rawApiResponse, no headline, full-story or render call is made, and the
\* response is 200 with an empty story.
C6_AcquisitionFailureDowngraded ==
    acq_error.isError =>
        /\ rawApiResponse = acq_error.message
        /\ NoGenerationOrRender
        /\ pc = "done"
        /\ response.status = 200
        /\ response.story = <<>>
        /\ response.rawApiResponse = acq_error.message

C6_Witness ==
    /\ ~Truthy(request.company_data)
    /\ acq_error = Error("Request failed with status code 401")
    /\ response.status = 200

\* C7: whenever acquisition ends with neither a usable profile nor a recorded
\* error text, the response is 500 and no headline, full-story or render call
\* is made.
C7_EmptyAcquisitionFailsHard ==
    (/\ pc \notin {"start", "awaitResearch"}
     /\ ~Truthy(research_data)
     /\ rawApiResponse \in {NullValue, ""}) =>
        /\ response.status = 500
        /\ NoGenerationOrRender

C7_Witness ==
    /\ content = JNull
    /\ research_data = JNull
    /\ rawApiResponse = NullValue
    /\ response.status = 500

DigitSet == {DigitChars[i] : i \in 1..10}

DigitValue(c) == (CHOOSE i \in 1..10 : DigitChars[i] = c) - 1

RECURSIVE parseNat(_)
parseNat(s) == IF s = <<>> THEN 0
               ELSE parseNat(SubSeq(s, 1, Len(s) - 1)) * 10 + DigitValue(s[Len(s)])

\* a non-empty run of digits without a leading zero
IsPlainNatural(s) ==
    /\ s # <<>>
    /\ \A i \in 1..Len(s) : s[i] \in DigitSet
    /\ Len(s) > 1 => s[1] # "0"

\* the natural number a run of digits denotes, as millions and units
parsePair(s) ==
    IF Len(s) <= 6 THEN [m |-> 0, u |-> parseNat(s)]
    ELSE [m |-> parseNat(SubSeq(s, 1, Len(s) - 6)), u |-> parseNat(SubSeq(s, Len(s) - 5, Len(s)))]

\* s is the plain decimal numeral of the integer v
Denotes(s, v) ==
    IF v.m < 0
    THEN /\ Len(s) > 1 /\ s[1] = "-" /\ IsPlainNatural(Tail(s))
         /\ LET a == parsePair(Tail(s))
            IN /\ a.u + v.u \in {0, Million}
               /\ a.m + v.m = (IF a.u = 0 THEN 0 ELSE -1)
    ELSE IsPlainNatural(s) /\ parsePair(s) = v

StripCommas(g) == SelectSeq(g, LAMBDA c : c # ",")

DigitsRightOf(g, i) == Cardinality({j \in (i + 1)..Len(g) : g[j] # ","})

\* en-US: a separator before every third digit from the right
USBreak(n) == n > 0 /\ n % 3 = 0

\* en-IN: a separator before the last three digits, then before every second
INBreak(n) == n = 3 \/ (n > 3 /\ n % 2 = 1)

\* string s is the integer v written with digit grouping: the separators stand
\* exactly at the breaks, and without them s is the numeral of v
LocaleGrouped(s, v, IsBreak(_)) ==
    LET g == IF v.m < 0 THEN Tail(s) ELSE s
    IN /\ s # <<>> /\ g # <<>>
       /\ v.m < 0 => s[1] = "-"
       /\ g[1] # "," /\ g[Len(g)] # ","
       /\ \A i \in 1..(Len(g) - 1) :
             IF g[i] = "," THEN g[i + 1] # ","
             ELSE g[i + 1] = "," <=> IsBreak(DigitsRightOf(g, i))
       /\ Denotes(StripCommas(s), v)

\* string s is sign, then the whole number nearest to v / (k * Million) with no
\* decimal places, then suffix
Abbreviated(s, v, sign, k, suffix) ==
    /\ Len(s) > 1 + Len(suffix)
    /\ s[1] = sign
    /\ SubSeq(s, Len(s) - Len(suffix) + 1, Len(s)) = suffix
    /\ LET numeral == SubSeq(s, 2, Len(s) - Len(suffix))
       IN /\ IsPlainNatural(numeral)
          /\ LET n == parseNat(numeral)
                 dm == v.m - n * k
             IN /\ dm \in (-k)..k
                /\ 2 * (dm * Million + v.u) <= k * Million
                /\ 2 * (dm * Million + v.u) >= -(k * Million)

CroresSuffix == <<" ", "c", "r", "o", "r", "e", "s">>

\* C8: format_metrics(value, tag) for integer values: with "inr" and value >=
\* 10,000,000 it is the rupee sign, value / 10,000,000 as a whole number and
\* " crores"; with "usd" and value >= 1,000,000 it is "$", value / 1,000,000 as
\* a whole number and "M"; below the threshold it is the currency sign and the
\* value with the locale's digit grouping; for any other tag it is the plain
\* numeral of value.  5000000000 with "inr" gives the rupee sign and "500 crores".
C8_FormatMetrics ==
    fmt_result # <<"unset">> =>
        /\ (fmt_type = "inr" /\ fmt_value.m >= 10) =>
               Abbreviated(fmt_result, fmt_value, "₹", 10, CroresSuffix)
        /\ (fmt_type = "inr" /\ fmt_value.m < 10) =>
               (Head(fmt_result) = "₹" /\ LocaleGrouped(Tail(fmt_result), fmt_value, INBreak))
        /\ (fmt_type = "usd" /\ fmt_value.m >= 1) =>
               Abbreviated(fmt_result, fmt_value, "$", 1, <<"M">>)
        /\ (fmt_type = "usd" /\ fmt_value.m < 1) =>
               (Head(fmt_result) = "$" /\ LocaleGrouped(Tail(fmt_result), fmt_value, USBreak))
        /\ fmt_type \notin {"inr", "usd"} => Denotes(fmt_result, fmt_value)
        /\ (fmt_type = "inr" /\ fmt_value = [m |-> 5000, u |-> 0]) =>
               fmt_result = <<"₹", "5", "0", "0">> \o CroresSuffix

C8_Witness ==
    /\ fmt_type = "inr"
    /\ fmt_value = [m |-> 5000, u |-> 0]
    /\ fmt_result = <<"₹", "5", "0", "0">> \o CroresSuffix

Rank(fn) ==
    CASE fn = ResearchFn -> 1
      [] fn = HookFn -> 2
      [] fn = StoryFn -> 3
      [] fn = RenderFn -> 4

\* C9: within a request each of the research, headline, full-story and render
\* calls is made at most once, a call starts only after the previous one has
\* ended, the calls happen in that order, and a failed call is not repeated.
C9_SequentialNoRetry ==
    /\ \A i \in 1..Len(calls) :
          IF i % 2 = 1 THEN calls[i].ev = "call"
          ELSE calls[i].ev \in {"return", "throw"} /\ calls[i].fn = calls[i - 1].fn
    /\ \A i, j \in 1..Len(calls) :
          (i < j /\ calls[i].ev = "call" /\ calls[j].ev = "call")
              => Rank(calls[i].fn) < Rank(calls[j].fn)

C9_Witness ==
    /\ response.status = 200
    /\ Len(calls) = 8
    /\ calls[1] = Call(ResearchFn)
    /\ calls[7] = Call(RenderFn)

\* text is a profile wrapped in code fences, with optional white space around
\* the fences
FencedProfile(text, body) ==
    \E lead \in Pads, p1 \in Pads, p2 \in Pads, trail \in Pads, open \in Openers \ {<<>>} :
        text = lead \o open \o p1 \o body \o p2 \o Fence \o trail

\* C10: when the research API answers with a valid JSON profile wrapped in code
\* fences (with optional white space around the fences), or with the bare
\* profile, researchCompanyWithPerplexity returns the parsed profile and
\* raises no parse error.
C10_FencedProfileIsParsed ==
    \A body \in {JEmptyObject, JProfile} :
        (content # NullString /\ (content = body \/ FencedProfile(content, body))) =>
            (acq_error = NoError /\ research_data = body)

====
